---- MODULE Spec2Model ----
(***************************************************************************)
(* Model of mazemdp/mdp.py: the Mdp engine (construction, reset, done,     *)
(* step, the rendering calls) and SimpleActionSpace.  Probabilities are integer weights over a common total; the      *)
(* uniform draw in [0,1) is an integer in 0..total-1 (the draw scaled by   *)
(* the total), and a standard-normal draw is an integer in NormalDraws.    *)
(***************************************************************************)
EXTENDS Integers, FiniteSets, Sequences, TLC

\* ------------------------------------------------------------------ bounds
NbStates == 3          \* S: number of states of the constructed MDPs
NbActions == 2         \* A: size of the action dimension of P and r
TimeoutSpread == 1     \* timeouts tried: MinTimeout-1 .. MinTimeout+TimeoutSpread
MaxExtraSteps == 1     \* steps the caller may still take after timestep = timeout
MaxDeviation == 1      \* deviations tried by step: 0..MaxDeviation
Weight == 2            \* total weight of every row of P and of P0

\* --------------------------------------------------------- program constants
MinTimeout == 10       \* assert timeout > 10
DefaultTimeout == 50   \* timeout=50
DefaultGamma == 9      \* gamma=0.9, in tenths
None == -1             \* Python's None (current_state before the first reset)

\* an optional argument: Omitted is Python's None, Given(v) the value v
Omitted == [given |-> FALSE, value |-> <<>>]

Given(v) == [given |-> TRUE, value |-> v]

States == 0..(NbStates - 1)
Actions == 0..(NbActions - 1)
Timeouts == ((MinTimeout - 1)..(MinTimeout + TimeoutSpread)) \cup {DefaultTimeout}
Deviations == 0..MaxDeviation
NormalDraws == {-1, 1}

VARIABLES
    phase,                \* "unbuilt", "live" (an instance exists) or "failed"
    nb_states, terminal_states, has_state, timeout, P0, P, r, gamma,
    action_space,         \* a SimpleActionSpace: its actions (indexed from 0) and size
    timestep, current_state, last_action_achieved,
    call,                 \* history: the last call and its arguments/draws
    ret,                  \* history: what the last call returned
    steps,                \* history: step calls since the last reset
    clean,                \* history: no terminal state visited since the last reset
    everDone,             \* history: some step since the last reset returned done
    overrun               \* history: some step since the last reset was taken while done() was true

config == <<nb_states, terminal_states, has_state, timeout, P0, P, r, gamma, action_space>>
episode == <<timestep, current_state, last_action_achieved>>
history == <<call, ret, steps, clean, everDone, overrun>>
vars == <<phase, config, episode, history>>

\* ------------------------------------------------------- discrete sampler
RECURSIVE CumSum(_, _)
CumSum(p, i) == IF i < 0 THEN 0 ELSE p[i] + CumSum(p, i - 1)

Total(p) == CumSum(p, Cardinality(DOMAIN p) - 1)

\* the values a uniform draw in [0,1) can take, scaled by the total weight
Draws(p) == 0..(Total(p) - 1)

Least(S) == CHOOSE x \in S : \A y \in S : x <= y

\* first index whose cumulative weight exceeds the draw, else the last index
discreteProb(p, u) ==
    LET hits == {i \in DOMAIN p : CumSum(p, i) > u}
    IN  IF hits # {} THEN Least(hits) ELSE Cardinality(DOMAIN p) - 1

\* ------------------------------------------------------------ input tables
PointMass(k) == [i \in States |-> IF i = k THEN Weight ELSE 0]

Spread(j, k) == [i \in States |-> (IF i = j THEN 1 ELSE 0) + (Weight - 1) * (IF i = k THEN 1 ELSE 0)]

StartDistributions == {PointMass(0), PointMass(NbStates - 1), Spread(0, NbStates - 1)}

\* action 0 moves one state forward; action a > 0 stays or moves a states forward
RingTensor == [s \in States |-> [a \in Actions |->
                 IF a = 0 THEN PointMass((s + 1) % NbStates)
                 ELSE Spread(s, (s + a) % NbStates)]]


RewardMatrix == [s \in States |-> [a \in Actions |-> 10 * s + a - 10]]

TerminalSets == {{}, {0}, {1}, {NbStates - 1}}

\* the arguments the constructor is called with: the timeouts around the
\* floor with every terminal set and start distribution, the longer explicit
\* timeouts with one of each, one engine without a discrete state, and a call
\* that leaves timeout, terminal_states and has_state to their defaults
Arguments ==
    [timeout : (MinTimeout - 1)..(MinTimeout + 1), terminal_states : TerminalSets,
     start_distribution : StartDistributions, has_state : {TRUE}]
    \cup [timeout : Timeouts \ {DefaultTimeout}, terminal_states : {{NbStates - 1}},
          start_distribution : {PointMass(0)}, has_state : BOOLEAN]
    \cup [timeout : {DefaultTimeout}, terminal_states : {{}},
          start_distribution : {Spread(0, NbStates - 1)}, has_state : {TRUE}]

\* agent_state_kw / policy_kw: whether the call made to the plotter carried the
\* keyword; agent_state: the value it carried
NoCall == [op |-> "none", uniform |-> FALSE, u |-> 0, deviation |-> 0,
           pre_state |-> None, pre_done |-> FALSE, arg_timeout |-> 0,
           agent_pos |-> None, action_list |-> Omitted, nactions |-> 0,
           prob_list |-> Omitted, draw |-> 0]

NoRet == [state |-> None, reward |-> 0, done |-> FALSE, row |-> <<>>, noise |-> 0,
          raised |-> FALSE, plotted |-> "none", agent_state_kw |-> FALSE,
          agent_state |-> None, policy_kw |-> FALSE, index |-> None]

\* ------------------------------------------- SimpleActionSpace.__init__
\* np.arange(n): the integers 0..n-1
Arange(n) == [i \in 0..(n - 1) |-> i]

\* len() of a list held as a function on 0..len-1
Len0(list) == Cardinality(DOMAIN list)

SimpleActionSpaceIgnoringList(action_list, nactions) ==
    [actions |-> Arange(nactions), size |-> nactions]

SimpleActionSpace(action_list, nactions) ==
    LET actions == IF ~action_list.given \/ Len0(action_list.value) = 0
                   THEN Arange(nactions)
                   ELSE action_list.value
    IN  [actions |-> actions, size |-> Len0(actions)]

\* ---------------------------------------------- SimpleActionSpace.sample
\* np.ones(size) / size: equal weights
UniformWeights(size) == [i \in 0..(size - 1) |-> 1]

SampleProb(prob_list) ==
    IF ~prob_list.given THEN UniformWeights(action_space.size) ELSE prob_list.value

SampleActionOffByOne(index) == action_space.actions[(index + 1) % action_space.size]

SampleAction(index) == action_space.actions[index]

\* --------------------------------------------------------------- Mdp.done
doneLate ==
    IF current_state \in terminal_states THEN TRUE
    ELSE timestep > timeout

doneLatched ==
    IF current_state \in terminal_states THEN TRUE
    ELSE timestep >= timeout

doneTimeoutOnly == timestep = timeout

doneTerminalOnly == current_state \in terminal_states

done ==
    IF current_state \in terminal_states THEN TRUE
    ELSE timestep = timeout

\* ------------------------------------------------------------ Mdp.__init__
TimeoutAcceptedAtFloor(t) == t >= MinTimeout

TimeoutAccepted(t) == t > MinTimeout

Init ==
    /\ phase = "unbuilt"
    /\ nb_states = 0 /\ terminal_states = {} /\ has_state = TRUE /\ timeout = 0
    /\ P0 = <<>> /\ P = <<>> /\ r = <<>> /\ gamma = 0
    /\ action_space = SimpleActionSpace(Omitted, 0)
    /\ timestep = 0 /\ current_state = None /\ last_action_achieved = FALSE
    /\ call = NoCall /\ ret = NoRet
    /\ steps = 0 /\ clean = TRUE /\ everDone = FALSE /\ overrun = FALSE

Construct(args) ==
    /\ phase = "unbuilt"
    /\ call' = [NoCall EXCEPT !.op = "init", !.arg_timeout = args.timeout]
    /\ IF TimeoutAccepted(args.timeout)
       THEN /\ phase' = "live"
            /\ nb_states' = NbStates
            /\ terminal_states' = args.terminal_states
            /\ action_space' = SimpleActionSpace(Omitted, NbActions)
            /\ has_state' = args.has_state
            /\ timeout' = args.timeout
            /\ timestep' = 0
            /\ P0' = args.start_distribution
            /\ P' = RingTensor
            /\ r' = RewardMatrix
            /\ gamma' = DefaultGamma
            /\ current_state' = None
            /\ ret' = NoRet
       ELSE \* the assert raises: no instance, no attribute is ever set
            /\ phase' = "failed"
            /\ ret' = [NoRet EXCEPT !.raised = TRUE]
            /\ UNCHANGED <<config, timestep, current_state>>
    /\ UNCHANGED <<last_action_achieved, steps, clean, everDone, overrun>>

\* -------------------------------------------------------------- Mdp.reset
UniformProbAllStates == [i \in 0..(nb_states - 1) |-> 1]

UniformProb == [i \in 0..(nb_states - 2) |-> 1]

ResetProbAlwaysUniform(uniform) == UniformProb

ResetProb(uniform) == IF uniform THEN UniformProb ELSE P0

\* a reset that leaves the 0/1 support of P0 in P0
ResetFrameOverwritingP0 ==
    /\ P0' = [i \in DOMAIN P0 |-> IF P0[i] > 0 THEN 1 ELSE 0]
    /\ UNCHANGED <<phase, nb_states, terminal_states, has_state, timeout, P, r, gamma,
                   action_space>>

\* reset assigns current_state, timestep and last_action_achieved only
ResetFrame == UNCHANGED <<phase, config>>

ResetTimestepKept == timestep

ResetTimestep == 0

Reset(uniform, d) ==
    /\ phase = "live"
    /\ d \in Draws(ResetProb(uniform))
    /\ current_state' = discreteProb(ResetProb(uniform), d)
    /\ timestep' = ResetTimestep
    /\ last_action_achieved' = FALSE
    /\ call' = [NoCall EXCEPT !.op = "reset", !.uniform = uniform,
                              !.pre_done = (current_state # None /\ done)]
    /\ ret' = [NoRet EXCEPT !.state = current_state']
    /\ steps' = 0
    /\ clean' = (current_state' \notin terminal_states)
    /\ everDone' = FALSE
    /\ overrun' = FALSE
    /\ ResetFrame

\* --------------------------------------------------------------- Mdp.step
Noise(deviation, z) == deviation * z

StepRewardOfSuccessor(u, noise) == r[current_state'][u] + noise

StepReward(u, noise) == r[current_state][u] + noise

StepRowOfFirstState(u) == P[0][u]

StepRow(u) == P[current_state][u]

\* the row put into info, built before current_state is overwritten
InfoRowOfSuccessor(u) == P[current_state'][u]

InfoRow(u) == P[current_state][u]

StepTimestepDouble == timestep + 2

StepTimestepAfterCheck == timestep

StepTimestep == timestep + 1

\* step has no early return: it runs whenever an episode state exists
StepRunsUnlessDone == current_state # None /\ ~done

StepRuns == current_state # None

Step(u, deviation, z, d) ==
    /\ phase = "live"
    /\ StepRuns
    /\ timestep < timeout + MaxExtraSteps
    /\ d \in Draws(StepRow(u))
    /\ UNCHANGED <<phase, config, last_action_achieved>>
    /\ LET noise == Noise(deviation, z)
           reward == StepReward(u, noise)
           next_state == discreteProb(StepRow(u), d)
       IN  /\ timestep' = StepTimestep
           /\ current_state' = next_state
           /\ call' = [NoCall EXCEPT !.op = "step", !.u = u, !.deviation = deviation,
                                     !.pre_state = current_state, !.pre_done = done]
           /\ ret' = [NoRet EXCEPT !.state = next_state, !.reward = reward,
                                   !.done = done', !.row = InfoRow(u), !.noise = noise]
           /\ steps' = steps + 1
           /\ clean' = (clean /\ next_state \notin terminal_states)
           /\ everDone' = (everDone \/ ret'.done)
           /\ overrun' = (overrun \/ done)

\* ------------------------------------------------- a call of Mdp.done()
Done ==
    /\ phase = "live"
    /\ call' = [NoCall EXCEPT !.op = "done"]
    /\ ret' = [NoRet EXCEPT !.done = done]
    /\ UNCHANGED <<phase, config, episode, steps, clean, everDone, overrun>>

\* ------------------------------------------- Mdp.new_render / Mdp.save_fig
NewRender ==
    /\ phase = "live"
    /\ call' = [NoCall EXCEPT !.op = "new_render"]
    /\ ret' = [NoRet EXCEPT !.plotted = "new_render"]
    /\ UNCHANGED <<phase, config, episode, steps, clean, everDone, overrun>>

SaveFig ==
    /\ phase = "live"
    /\ call' = [NoCall EXCEPT !.op = "save_fig"]
    /\ ret' = [NoRet EXCEPT !.plotted = "save_fig"]
    /\ UNCHANGED <<phase, config, episode, steps, clean, everDone, overrun>>

\* -------------------------------------------------------------- Mdp.render
AgentPositions == {None, 0}

RenderBranchOverrideFirst(agent_pos) ==
    IF agent_pos # None THEN "b"
    ELSE IF ~has_state THEN "a"
    ELSE IF current_state # None THEN "c"
    ELSE "d"

\* the branch of the if / elif chain that is taken
RenderBranch(agent_pos) ==
    IF ~has_state THEN "a"
    ELSE IF agent_pos # None THEN "b"
    ELSE IF current_state # None THEN "c"
    ELSE "d"

\* the call the plotter receives in each branch
PlotterRender(branch, agent_pos) ==
    CASE branch = "a" -> [NoRet EXCEPT !.plotted = "render", !.agent_state_kw = TRUE,
                                       !.agent_state = None]
      [] branch = "b" -> [NoRet EXCEPT !.plotted = "render", !.agent_state_kw = TRUE,
                                       !.agent_state = agent_pos]
      [] branch = "c" -> [NoRet EXCEPT !.plotted = "render", !.agent_state_kw = TRUE,
                                       !.agent_state = current_state, !.policy_kw = TRUE]
      [] branch = "d" -> [NoRet EXCEPT !.plotted = "render"]

\* a render that makes an explicit agent_pos the current state
RenderAdoptingAgentPos(agent_pos) ==
    /\ phase = "live"
    /\ call' = [NoCall EXCEPT !.op = "render", !.agent_pos = agent_pos]
    /\ ret' = PlotterRender(RenderBranch(agent_pos), agent_pos)
    /\ current_state' = IF agent_pos # None THEN agent_pos ELSE current_state
    /\ UNCHANGED <<phase, config, timestep, last_action_achieved, steps, clean,
                   everDone, overrun>>

Render(agent_pos) ==
    /\ phase = "live"
    /\ call' = [NoCall EXCEPT !.op = "render", !.agent_pos = agent_pos]
    /\ ret' = PlotterRender(RenderBranch(agent_pos), agent_pos)
    /\ UNCHANGED <<phase, config, episode, steps, clean, everDone, overrun>>

Next ==
    \/ \E args \in Arguments : Construct(args)
    \/ \E uniform \in BOOLEAN, d \in 0..(Weight - 1 + NbStates) : Reset(uniform, d)
    \/ \E u \in Actions, deviation \in Deviations, z \in NormalDraws, d \in 0..(Weight - 1) :
         Step(u, deviation, z, d)
    \/ Done
    \/ NewRender
    \/ SaveFig
    \/ \E agent_pos \in AgentPositions : Render(agent_pos)

Spec == Init /\ [][Next]_vars

\* ------------------------------------- SimpleActionSpace used on its own
Identifiers == {"north", "south", "east"}

\* the explicit lists tried: lists of distinct identifiers (the empty list
\* among them) and lists of non-contiguous integers
IdentifierLists ==
    UNION {{f \in [0..(k - 1) -> Identifiers] : \A i, j \in 0..(k - 1) : f[i] = f[j] => i = j}
             : k \in 0..Cardinality(Identifiers)}

IntegerLists == {[i \in 0..(k - 1) |-> 10 * i + 5] : k \in 1..NbActions}

\* the prob_list arguments tried for a space of the given size
ProbLists(size) ==
    {Omitted}
    \cup {Given([i \in 0..(size - 1) |-> IF i = k THEN Weight ELSE 0]) : k \in 0..(size - 1)}
    \cup {Given([i \in 0..(size - 1) |-> IF i = 0 THEN Weight - 1 ELSE
                                          IF i = size - 1 THEN 1 ELSE 0])}

everythingButSpace ==
    <<phase, nb_states, terminal_states, has_state, timeout, P0, P, r, gamma,
      episode, steps, clean, everDone, overrun>>

SpaceNew(action_list, nactions) ==
    /\ phase = "unbuilt"
    /\ action_space' = SimpleActionSpace(action_list, nactions)
    /\ call' = [NoCall EXCEPT !.op = "space", !.action_list = action_list,
                              !.nactions = nactions]
    /\ ret' = NoRet
    /\ UNCHANGED everythingButSpace

\* sampling an empty space is a contract violation: the caller never does it;
\* ret.state carries the returned action
Sample(prob_list, d) ==
    /\ phase = "unbuilt"
    /\ action_space.size > 0
    /\ d \in Draws(SampleProb(prob_list))
    /\ LET index == discreteProb(SampleProb(prob_list), d)
       IN  /\ call' = [NoCall EXCEPT !.op = "sample", !.prob_list = prob_list, !.draw = d]
           /\ ret' = [NoRet EXCEPT !.index = index, !.state = SampleAction(index)]
    /\ UNCHANGED <<action_space, everythingButSpace>>

SpaceNext ==
    \/ \E action_list \in {Omitted} \cup {Given(l) : l \in IdentifierLists},
          nactions \in 0..NbActions : SpaceNew(action_list, nactions)
    \/ \E l \in IntegerLists, nactions \in 0..NbActions : SpaceNew(Given(l), nactions)
    \/ \E prob_list \in ProbLists(action_space.size), d \in 0..(Weight + NbActions) :
          Sample(prob_list, d)

SpaceSpec == Init /\ [][SpaceNext]_vars

\* ------------------------------------------------------------------ claims

\* C1: in an episode whose visited states are all non-terminal, the done
\* returned by the k-th step since reset (and done() right after it) is false
\* for k < timeout and true for k = timeout.
C1_TimeoutBoundary ==
    (call.op = "step" /\ clean /\ steps <= timeout)
        => (ret.done = (steps = timeout) /\ done = (steps = timeout))

C1_Witness ==
    call.op = "step" /\ clean /\ steps = timeout /\ ret.done /\ terminal_states # {}

\* C2: a done() call returns true exactly when current_state is a terminal
\* state or timestep equals timeout.
C2_DoneIff ==
    call.op = "done"
        => (ret.done = (current_state \in terminal_states \/ timestep = timeout))

C2_Witness ==
    call.op = "done" /\ ret.done /\ current_state \notin terminal_states
        /\ timestep = timeout

\* C3: once timeout steps have been taken since a reset, some step of the
\* episode has reported done: a caller that stops at the first done takes at
\* most timeout steps, whatever was sampled.
C3_DoneWithinBudget ==
    (phase = "live" /\ steps >= timeout) => everDone

C3_Witness ==
    call.op = "step" /\ steps = timeout /\ ~call.pre_done /\ clean /\ ret.done

\* C4: a step with deviation 0 returns the reward r[s, action] of the state s
\* it was called in.
C4_RewardExact ==
    (call.op = "step" /\ call.deviation = 0)
        => ret.reward = r[call.pre_state][call.u]

C4_Witness ==
    call.op = "step" /\ call.deviation = 0 /\ call.pre_state # current_state
        /\ ret.reward # r[current_state][call.u]

\* C5: every step adds exactly 1 to timestep, returns the state it made
\* current, and returns done evaluated on the new state and the new timestep.
C5_StepOrder ==
    [][call'.op = "step" =>
         /\ timestep' = timestep + 1
         /\ ret'.state = current_state'
         /\ ret'.done = (current_state' \in terminal_states' \/ timestep' = timeout')]_vars

C5_Witness ==
    call.op = "step" /\ ret.done /\ ~call.pre_done /\ timestep # timeout
        /\ ret.state = current_state

\* C6: from a terminal current_state a step with any valid action is still
\* possible, and it looks up r[current_state, action], samples from
\* P[current_state, action, :], increments timestep and updates current_state.
C6_TerminalStepRuns ==
    /\ (phase = "live" /\ current_state \in terminal_states
           /\ timestep < timeout + MaxExtraSteps)
          => \A u \in Actions : ENABLED (\E z \in NormalDraws : Step(u, 0, z, 0))
    /\ (call.op = "step" /\ call.pre_state \in terminal_states)
          => /\ ret.reward = r[call.pre_state][call.u] + ret.noise
             /\ \E d \in Draws(P[call.pre_state][call.u]) :
                   ret.state = discreteProb(P[call.pre_state][call.u], d)
             /\ current_state = ret.state
             /\ timestep = steps

C6_Witness ==
    call.op = "step" /\ call.pre_state \in terminal_states /\ call.pre_done
        /\ current_state \notin terminal_states /\ steps > 1

\* C7: reset(uniform=false) is possible in every state of a constructed engine;
\* it sets timestep to 0 and current_state to an index with positive weight
\* in P0, and returns that index.
C7_ResetFromP0 ==
    /\ phase = "live" => ENABLED Reset(FALSE, 0)
    /\ (call.op = "reset" /\ ~call.uniform)
          => /\ timestep = 0
             /\ current_state \in States
             /\ P0[current_state] > 0
             /\ ret.state = current_state

C7_Witness ==
    call.op = "reset" /\ ~call.uniform /\ call.pre_done
        /\ current_state = NbStates - 1 /\ P0[0] > 0

\* C8: reset(uniform=true) returns a state in 0..S-2, each of them is a
\* possible result, S-1 is never the result, and P0 plays no part.
C8_UniformReset ==
    /\ phase = "live" =>
          \A k \in 0..(nb_states - 2) :
             ENABLED (\E d \in 0..NbStates : Reset(TRUE, d) /\ current_state' = k)
    /\ (call.op = "reset" /\ call.uniform)
          => /\ current_state \in 0..(nb_states - 2)
             /\ current_state # nb_states - 1
             /\ ret.state = current_state

C8_Witness ==
    call.op = "reset" /\ call.uniform /\ current_state = nb_states - 2
        /\ P0[current_state] = 0

\* C9: right after reset(uniform=false), done() is false when the sampled
\* start state is not terminal, whatever happened before the reset.
C9_NotDoneAfterReset ==
    (call.op = "reset" /\ ~call.uniform /\ current_state \notin terminal_states)
        => ~done

C9_Witness ==
    call.op = "reset" /\ ~call.uniform /\ call.pre_done /\ terminal_states = {}
        /\ ~done

\* C10: a constructor call with timeout <= 10 raises and leaves no engine
\* (no reset, step or done can follow); one with timeout > 10, the default 50
\* included, yields an engine.
C10_TimeoutPrecondition ==
    /\ phase = "unbuilt" =>
          \A args \in Arguments :
             /\ args.timeout > 10 => ENABLED (Construct(args) /\ phase' = "live")
             /\ args.timeout <= 10 => ~ENABLED (Construct(args) /\ phase' = "live")
    /\ phase = "live" => timeout > 10
    /\ phase = "failed" =>
          /\ call.arg_timeout <= 10
          /\ ret.raised
          /\ current_state = None
          /\ ~ENABLED Next

C10_Witness ==
    phase = "failed" /\ call.arg_timeout = 10

C10_WitnessDefault ==
    phase = "live" /\ timeout = 50

\* C11: render passes the plotter (a) agent_state None and no policy when
\* has_state is false, whatever agent_pos or current_state are; (b) else
\* agent_pos when it is given, even after a reset; (c) else current_state and
\* the policy after a reset; (d) else neither agent state nor policy; it never
\* raises.
C11_RenderPriority ==
    /\ phase = "live" => \A pos \in AgentPositions : ENABLED Render(pos)
    /\ call.op = "render" =>
          /\ ret.plotted = "render" /\ ~ret.raised
          /\ IF ~has_state
             THEN ret.agent_state = None /\ ~ret.policy_kw
             ELSE IF call.agent_pos # None
             THEN ret.agent_state_kw /\ ret.agent_state = call.agent_pos /\ ~ret.policy_kw
             ELSE IF current_state # None
             THEN ret.agent_state_kw /\ ret.agent_state = current_state /\ ret.policy_kw
             ELSE ~ret.agent_state_kw /\ ~ret.policy_kw

C11_Witness ==
    call.op = "render" /\ ~has_state /\ call.agent_pos # None
        /\ current_state # None /\ current_state # call.agent_pos
        /\ ret.agent_state = None

\* C12: once an engine is constructed, no call changes nb_states, P, r, P0,
\* gamma, terminal_states, timeout, has_state or action_space.
C12_ConfigImmutable ==
    [][phase = "live" => UNCHANGED config]_vars

C12_Witness ==
    /\ call.op = "save_fig" /\ steps = timeout + 1 /\ current_state # None
    /\ P = RingTensor /\ r = RewardMatrix /\ gamma = DefaultGamma
    /\ P0 = Spread(0, NbStates - 1) /\ terminal_states = {1}

\* C13: a space built from a non-empty list holds that list, one built from
\* nactions holds 0..nactions-1 and size = nactions; sample returns
\* actions[i] for the index i the sampler drew, so always a member of the
\* actions, and without prob_list every action is a possible result.
C13_SampleMember ==
    /\ call.op = "space" =>
          IF call.action_list.given /\ Len0(call.action_list.value) > 0
          THEN /\ action_space.actions = call.action_list.value
               /\ action_space.size = Len0(call.action_list.value)
          ELSE /\ DOMAIN action_space.actions = 0..(call.nactions - 1)
               /\ \A i \in 0..(call.nactions - 1) : action_space.actions[i] = i
               /\ action_space.size = call.nactions
    /\ call.op = "sample" =>
          /\ ret.index = discreteProb(SampleProb(call.prob_list), call.draw)
          /\ ret.index \in 0..(action_space.size - 1)
          /\ ret.state = action_space.actions[ret.index]
          /\ \E i \in DOMAIN action_space.actions : ret.state = action_space.actions[i]
    /\ action_space.size > 0 =>
          \A i \in 0..(action_space.size - 1) :
             ENABLED (\E d \in 0..NbActions + 1 :
                        Sample(Omitted, d) /\ ret'.state = action_space.actions[i])

C13_Witness ==
    /\ call.op = "sample" /\ ~call.prob_list.given
    /\ action_space.size = Cardinality(Identifiers)
    /\ ret.state = "east" /\ ret.index = 0

\* C14: the next_state a step returns is a state index with positive weight
\* in the row P[s, action, :] of the state s the step was called in; when that
\* row has all its weight at k, the step moves to k.
C14_NextStateInSupport ==
    call.op = "step" =>
       /\ ret.state \in 0..(nb_states - 1)
       /\ P[call.pre_state][call.u][ret.state] > 0
       /\ \A k \in States :
             P[call.pre_state][call.u][k] = Total(P[call.pre_state][call.u])
                => ret.state = k /\ current_state = k

C14_Witness ==
    /\ call.op = "step" /\ ret.state = 0 /\ call.pre_state = NbStates - 1
    /\ P[call.pre_state][call.u][0] = Weight
    /\ P[ret.state][call.u][ret.state] = 0

\* C15: the info a step returns holds the row P[s, action, :] of the state s
\* the step was called in, which is the row the draw was made from, and the
\* noise that was added to the reward, 0 when deviation is 0.
C15_InfoRowAndNoise ==
    call.op = "step" =>
       /\ ret.row = P[call.pre_state][call.u]
       /\ \E d \in Draws(ret.row) : ret.state = discreteProb(ret.row, d)
       /\ ret.reward = r[call.pre_state][call.u] + ret.noise
       /\ \E z \in NormalDraws : ret.noise = call.deviation * z
       /\ call.deviation = 0 => ret.noise = 0

C15_Witness ==
    /\ call.op = "step" /\ ret.noise # 0 /\ current_state # call.pre_state
    /\ ret.row # P[current_state][call.u]

\* C17: a done(), render, new_render or save_fig call leaves current_state,
\* timestep and the configuration as they are, the value a done() call returns
\* is done() of the state it leaves, and two done() calls in a row return the
\* same value.
C17_QueriesArePure ==
    [][call'.op \in {"done", "render", "new_render", "save_fig"} =>
         /\ UNCHANGED <<current_state, timestep, config>>
         /\ call'.op = "done" => ret'.done = done'
         /\ (call.op = "done" /\ call'.op = "done") => ret'.done = ret.done]_vars

C17_Witness ==
    /\ call.op = "render" /\ call.agent_pos # None /\ has_state
    /\ current_state # None /\ current_state # call.agent_pos /\ timestep > 0

\* C18: a constructed engine starts with current_state undefined and timestep
\* 0; once current_state is defined it is a state index in 0..S-1 and never
\* becomes undefined again, and timestep is always the number of step calls
\* since the most recent reset.
C18_EpisodeTypes ==
    [][/\ (call'.op = "init" /\ phase' = "live") => (current_state' = None /\ timestep' = 0)
       /\ call'.op \in {"reset", "step"} => current_state' \in 0..(nb_states' - 1)
       /\ current_state # None =>
             (current_state' # None /\ current_state' \in 0..(nb_states' - 1))
       /\ timestep' >= 0 /\ timestep' = steps']_vars

C18_Witness ==
    /\ call.op = "reset" /\ call.pre_done /\ current_state = NbStates - 1
    /\ timestep = 0 /\ steps = 0

\* C19: a caller that never steps while done() is true keeps timestep <=
\* timeout; step is still possible when done() is true, and the step taken
\* after the timeout step makes timestep = timeout + 1, where done() is false
\* again for a non-terminal current_state.
C19_DoneNotLatched ==
    /\ (phase = "live" /\ ~overrun) => timestep <= timeout
    /\ (phase = "live" /\ current_state # None /\ done
           /\ timestep < timeout + MaxExtraSteps)
          => \A u \in Actions : ENABLED (\E z \in NormalDraws : Step(u, 0, z, 0))
    /\ (call.op = "step" /\ steps = timeout + 1)
          => /\ timestep = timeout + 1
             /\ overrun
             /\ current_state \notin terminal_states => (~done /\ ~ret.done)

C19_Witness ==
    /\ call.op = "step" /\ steps = timeout + 1 /\ call.pre_done /\ clean
    /\ everDone /\ ~ret.done /\ ~done

====
